---- MODULE Spec2Model ----
(***************************************************************************)
(* Model of src/createMazeWidget.js: the seeded generator, the grid, the   *)
(* depth-first carving pass (carveMaze) and the widget controller          *)
(* (regenerate, redraw, setOptions, destroy, getState).                    *)
(*                                                                         *)
(* JavaScript values are modelled as follows.                              *)
(*  - An object literal is a function whose DOMAIN is the set of its own   *)
(*    properties that hold a value; a property that is null or undefined   *)
(*    is left out of the DOMAIN (the code reads such properties only with  *)
(*    ?? and ||, which treat the two alike).                               *)
(*  - A null/undefined object is NullObj.                                  *)
(*  - An unsigned 32-bit number is the pair <<hi, lo>> of its 16-bit       *)
(*    halves, so that no intermediate result leaves TLC's integers.        *)
(***************************************************************************)
EXTENDS Integers, Sequences, FiniteSets, TLC

\* ------------------------------------------------------------------ bounds
\* cols ranges over 1..MaxCols and rows over 1..MaxRows; an entry or exit x
\* ranges over 0..MaxCols and a y over 0..MaxRows, so that each is out of
\* range in some grid and in range in another.
MaxCols == 2
MaxRows == 3
\* The widget's grids have one column or MaxSide columns, and one row or
\* MaxSide rows.
MaxSide == 2

\* Seeds handed to carveMaze: zero, the default, the documented example and a
\* negative one (>>> 0 wraps it to 2^32 - 1).
Seeds == {0, 983811, 12345, -1}

Sides == {"top", "right", "bottom", "left"}

NullObj == "null" :> TRUE
EmptyObj == [k \in {} |-> 0]

\* One optional property: <<>> leaves it out, <<v>> sets it to v.
Field(k, o) == IF o = <<>> THEN EmptyObj ELSE (k :> o[1])
Point(x, y, side) == Field("x", x) @@ Field("y", y) @@ Field("side", side)
OptX == {<<>>} \cup {<<n>> : n \in 0..MaxCols}
OptY == {<<>>} \cup {<<n>> : n \in 0..MaxRows}
OptSide == {<<>>} \cup {<<s>> : s \in Sides}
\* Every entry/exit argument: no object, or an object with any of x, y, side.
PointInputs == {NullObj} \cup {Point(x, y, s) : x \in OptX, y \in OptY, s \in OptSide}
\* The few entry/exit arguments used where passes are repeated.
RepeatPoints == {NullObj, Point(<<0>>, <<>>, <<"right">>)}

\* ---------------------------------------------------------- seeded generator
W16 == 2 ^ 16
LcgMul == 1664525
LcgInc == 1013904223

\* seed >>> 0
ToUint32(seed) == <<(seed \div W16) % W16, seed % W16>>

NextStateNoCarry(s) ==
    LET lo == s[2] * (LcgMul % W16) + (LcgInc % W16)
        hi == s[2] * (LcgMul \div W16) + s[1] * (LcgMul % W16)
              + (LcgInc \div W16)
    IN  <<hi % W16, lo % W16>>
\* state = (state * 1664525 + 1013904223) >>> 0
NextState(s) ==
    LET lo == s[2] * (LcgMul % W16) + (LcgInc % W16)
        hi == s[2] * (LcgMul \div W16) + s[1] * (LcgMul % W16)
              + (LcgInc \div W16) + (lo \div W16)
    IN  <<hi % W16, lo % W16>>

\* Math.floor((state / 2 ** 32) * n); the double product is exact for n <= 4.
FloorTimes(s, n) == (s[1] * n + (s[2] * n) \div W16) \div W16

\* ------------------------------------------------------------------- grid
Cell == [visited |-> FALSE,
         walls |-> [top |-> TRUE, right |-> TRUE, bottom |-> TRUE, left |-> TRUE]]
createGrid(cols, rows) == [y \in 0..(rows - 1) |-> [x \in 0..(cols - 1) |-> Cell]]

dirsOppSwapped ==
    << [dx |-> 0, dy |-> -1, wall |-> "top", opp |-> "bottom"],
       [dx |-> 1, dy |-> 0, wall |-> "right", opp |-> "right"],
       [dx |-> 0, dy |-> 1, wall |-> "bottom", opp |-> "top"],
       [dx |-> -1, dy |-> 0, wall |-> "left", opp |-> "left"] >>
dirs ==
    << [dx |-> 0, dy |-> -1, wall |-> "top", opp |-> "bottom"],
       [dx |-> 1, dy |-> 0, wall |-> "right", opp |-> "left"],
       [dx |-> 0, dy |-> 1, wall |-> "bottom", opp |-> "top"],
       [dx |-> -1, dy |-> 0, wall |-> "left", opp |-> "right"] >>

neighborsUnvisited(g, cols, rows, x, y) ==
    LET n == [i \in 1..4 |->
                [wall |-> dirs[i].wall, opp |-> dirs[i].opp,
                 nx |-> x + dirs[i].dx, ny |-> y + dirs[i].dy]]
    IN  SelectSeq(n, LAMBDA d : /\ d.nx >= 0
                                /\ d.nx < cols
                                /\ d.ny >= 0
                                /\ d.ny < rows
                                /\ ~g[d.ny][d.nx].visited)

carveIntoOneCopy(g, cur, next) ==
    [g EXCEPT ![cur.y][cur.x].walls[next.wall] = FALSE,
              ![next.ny][next.nx].visited = TRUE]
\* Lines 149-151: clear both copies of the wall, mark the neighbour visited.
carveInto(g, cur, next) ==
    [g EXCEPT ![cur.y][cur.x].walls[next.wall] = FALSE,
              ![next.ny][next.nx].walls[next.opp] = FALSE,
              ![next.ny][next.nx].visited = TRUE]

\* The locals of carveMaze after lines 119-122.
enterCarve(cols, rows, seed) ==
    [grid |-> [createGrid(cols, rows) EXCEPT ![0][0].visited = TRUE],
     stack |-> << [x |-> 0, y |-> 0] >>,
     state |-> ToUint32(seed)]

loopBodyNotPopping(L, cols, rows) ==
    LET cur == L.stack[Len(L.stack)]
        unv == neighborsUnvisited(L.grid, cols, rows, cur.x, cur.y)
    IN  IF Len(unv) > 0
        THEN LET s == NextState(L.state)
                 next == unv[FloorTimes(s, Len(unv)) + 1]
             IN  [grid |-> carveInto(L.grid, cur, next),
                  stack |-> Append(L.stack, [x |-> next.nx, y |-> next.ny]),
                  state |-> s]
        ELSE [grid |-> L.grid, stack |-> L.stack, state |-> L.state]
\* One iteration of the while loop, lines 145-155, on the locals L.
loopBody(L, cols, rows) ==
    LET cur == L.stack[Len(L.stack)]
        unv == neighborsUnvisited(L.grid, cols, rows, cur.x, cur.y)
    IN  IF Len(unv) > 0
        THEN LET s == NextState(L.state)
                 next == unv[FloorTimes(s, Len(unv)) + 1]
             IN  [grid |-> carveInto(L.grid, cur, next),
                  stack |-> Append(L.stack, [x |-> next.nx, y |-> next.ny]),
                  state |-> s]
        ELSE [grid |-> L.grid,
              stack |-> SubSeq(L.stack, 1, Len(L.stack) - 1),
              state |-> L.state]

RECURSIVE runLoop(_, _, _)
\* while (stack.length) { ... }, lines 144-156.
runLoop(L, cols, rows) ==
    IF L.stack = << >> THEN L ELSE runLoop(loopBody(L, cols, rows), cols, rows)

\* --------------------------------------------------------- entry and exit
NoGrid == createGrid(0, 0)
Has(o, k) == k \in DOMAIN o

\* Lines 159 and 161-165.
entryFinal(entry) ==
    LET ent == IF entry = NullObj THEN [x |-> 0, y |-> 0, side |-> "top"] ELSE entry
    IN  [x |-> IF Has(ent, "x") THEN ent.x ELSE 0,
         y |-> IF Has(ent, "y") THEN ent.y ELSE 0,
         side |-> IF Has(ent, "side") THEN ent.side ELSE "top"]

exitFinalWholeDefault(exit, cols, rows) ==
    IF exit = NullObj \/ ~Has(exit, "x") \/ ~Has(exit, "y")
    THEN [x |-> cols - 1, y |-> rows - 1,
          side |-> IF exit # NullObj /\ Has(exit, "side") THEN exit.side ELSE "bottom"]
    ELSE [x |-> exit.x, y |-> exit.y,
          side |-> IF Has(exit, "side") THEN exit.side ELSE "bottom"]
\* Lines 160 and 166-170.
exitFinal(exit, cols, rows) ==
    LET ex == IF exit = NullObj
              THEN [x |-> cols - 1, y |-> rows - 1, side |-> "bottom"]
              ELSE exit
    IN  [x |-> IF Has(ex, "x") THEN ex.x ELSE cols - 1,
         y |-> IF Has(ex, "y") THEN ex.y ELSE rows - 1,
         side |-> IF Has(ex, "side") THEN ex.side ELSE "bottom"]

\* grid[p.y][p.x] is an object: otherwise reading .walls of undefined throws.
Addressable(g, p) == p.y \in DOMAIN g /\ p.x \in DOMAIN g[p.y]

clearWallWholeCell(g, p) ==
    [g EXCEPT ![p.y][p.x].walls =
        [top |-> FALSE, right |-> FALSE, bottom |-> FALSE, left |-> FALSE]]
\* grid[p.y][p.x].walls[p.side] = false
clearWall(g, p) == [g EXCEPT ![p.y][p.x].walls[p.side] = FALSE]

\* Lines 159-175 on the grid the loop left: the grid returned, or thrown.
openings(g, cols, rows, entry, exit) ==
    LET en == entryFinal(entry)
        ex == exitFinal(exit, cols, rows)
    IN  IF ~Addressable(g, en) THEN [ok |-> FALSE, grid |-> NoGrid]
        ELSE IF ~Addressable(clearWall(g, en), ex) THEN [ok |-> FALSE, grid |-> NoGrid]
        ELSE [ok |-> TRUE, grid |-> clearWall(clearWall(g, en), ex)]

\* carveMaze as a function of its arguments.
carveMaze(cols, rows, seed, entry, exit) ==
    openings(runLoop(enterCarve(cols, rows, seed), cols, rows).grid,
             cols, rows, entry, exit)

\* ----------------------------------------------------------- configuration
\* opts.entry and opts.exit are references. The objects they lead to live in
\* a heap, so that two references to one object are seen to be one object:
\* address 1 is the object opts.entry refers to, address 2 the object
\* opts.exit refers to, and the reference 0 is null.
PointIds == 1..2
Free == "free" :> TRUE
Deref(h, r) == IF r = 0 THEN NullObj ELSE h[r]

\* Lines 64-75; lineWidthRatio 0.25 is the fraction 1/4.
defaults ==
    [cols |-> 5, rows |-> 5, wallColor |-> "#ffffff", bgColor |-> "#000000",
     lineWidthRatio |-> <<1, 4>>, seed |-> 983811, entry |-> 1, exit |-> 2,
     squareBy |-> "width", padding |-> 0]
defaultObjs ==
    [i \in PointIds |->
        IF i = 1 THEN [x |-> 0, y |-> 0, side |-> "top"] ELSE [side |-> "bottom"]]

\* The option objects handed to regenerate and setOptions: a property that
\* is an entry or exit holds the object literal written in the call (a new
\* object). The two seeds carve different mazes.
WidgetSeeds == {0, 983811}
WidgetSides == {1, MaxSide}
OptionInputs ==
    {EmptyObj}
    \cup {"cols" :> c : c \in WidgetSides}
    \cup {"rows" :> r : r \in WidgetSides}
    \cup {"seed" :> n : n \in WidgetSeeds}
    \cup {"entry" :> Point(<<0>>, <<1>>, <<"top">>)}
    \cup {"exit" :> Point(<<1>>, <<>>, <<>>)}
\* The option objects handed to createMazeWidget: they name a grid size (the
\* default one is 5 by 5), and some an entry.
CreateInputs ==
    {("cols" :> c) @@ ("rows" :> r) : c \in WidgetSides, r \in WidgetSides}
    \cup {("cols" :> c) @@ ("rows" :> r) @@ ("entry" :> Point(<<0>>, <<1>>, <<"top">>)) :
             c \in WidgetSides, r \in WidgetSides}

\* Object.assign(o, partial), lines 77, 244 and 260, on the configuration o
\* and the heap h. The object a replaced reference led to is garbage (no
\* snapshot is held when the configuration is assigned to, see Unheld), so
\* the new object takes its address.
assign(o, h, partial) ==
    [opts |-> [k \in DOMAIN o |->
                 IF ~Has(partial, k) THEN o[k]
                 ELSE IF k = "entry" THEN (IF partial.entry = NullObj THEN 0 ELSE 1)
                 ELSE IF k = "exit" THEN (IF partial.exit = NullObj THEN 0 ELSE 2)
                 ELSE partial[k]],
     objs |-> [i \in PointIds |->
                 IF i = 1 /\ Has(partial, "entry")
                 THEN (IF partial.entry = NullObj THEN Free ELSE partial.entry)
                 ELSE IF i = 2 /\ Has(partial, "exit")
                 THEN (IF partial.exit = NullObj THEN Free ELSE partial.exit)
                 ELSE h[i]]]

\* carveMaze({cols: opts.cols, ...}), lines 179-185 and 245-251.
carveFor(o, h) ==
    carveMaze(o.cols, o.rows, o.seed, Deref(h, o.entry), Deref(h, o.exit))

\* ---------------------------------------------------------------- drawing
\* The container's rectangle, in half pixels, and twice devicePixelRatio.
Rects == {[w2 |-> 0, h2 |-> 0, dpr2 |-> 2], [w2 |-> 13, h2 |-> 9, dpr2 |-> 3]}
Max(a, b) == IF a >= b THEN a ELSE b
Min(a, b) == IF a <= b THEN a ELSE b
\* Math.ceil(n / d) for n >= 0, d > 0.
CeilDiv(n, d) == (n + d - 1) \div d

\* Lines 188-194; a wrapper that is not in the document has an empty
\* rectangle.
measureSquare(o, rect, attached) ==
    IF ~attached THEN 0
    ELSE IF o.squareBy = "min" THEN Min(rect.w2, rect.h2) \div 2
    ELSE rect.w2 \div 2

Rect(x, y, w, h, c) == [x |-> x, y |-> y, w |-> w, h |-> h, color |-> c]

cellRectsMinCell(o, g, cssSize, x, y) ==
    LET w == g[y][x].walls
        px == (x * cssSize) \div o.cols
        py == (y * cssSize) \div o.cols
        cellSize == Max(1, CeilDiv(cssSize, o.cols))
        t == Max(1, CeilDiv(cssSize * o.lineWidthRatio[1],
                            o.cols * o.lineWidthRatio[2]))
    IN  (IF w.top THEN << Rect(px, py, cellSize, t, o.wallColor) >> ELSE << >>)
        \o (IF w.left THEN << Rect(px, py, t, cellSize, o.wallColor) >> ELSE << >>)
        \o (IF x = o.cols - 1 /\ w.right
            THEN << Rect(px + cellSize - t, py, t, cellSize, o.wallColor) >>
            ELSE << >>)
        \o (IF y = o.rows - 1 /\ w.bottom
            THEN << Rect(px, py + cellSize - t, cellSize, t, o.wallColor) >>
            ELSE << >>)
\* Lines 219-229: the rectangles filled for the cell (x, y) of the grid g.
\* cell = cssSize / cols is a fraction; with the sizes and column counts of
\* the model the doubles of the code round no product across an integer.
cellRects(o, g, cssSize, x, y) ==
    LET w == g[y][x].walls
        px == (x * cssSize) \div o.cols
        py == (y * cssSize) \div o.cols
        cellSize == CeilDiv(cssSize, o.cols)
        t == Max(1, CeilDiv(cssSize * o.lineWidthRatio[1],
                            o.cols * o.lineWidthRatio[2]))
    IN  (IF w.top THEN << Rect(px, py, cellSize, t, o.wallColor) >> ELSE << >>)
        \o (IF w.left THEN << Rect(px, py, t, cellSize, o.wallColor) >> ELSE << >>)
        \o (IF x = o.cols - 1 /\ w.right
            THEN << Rect(px + cellSize - t, py, t, cellSize, o.wallColor) >>
            ELSE << >>)
        \o (IF y = o.rows - 1 /\ w.bottom
            THEN << Rect(px, py + cellSize - t, cellSize, t, o.wallColor) >>
            ELSE << >>)

RECURSIVE drawCells(_, _, _, _, _)
\* The two loops of lines 217-231 from the k-th cell on, row by row; reading
\* .walls of a cell the grid does not have throws, and ends the pass.
drawCells(o, g, cssSize, k, ops) ==
    IF k >= o.rows * o.cols THEN [ok |-> TRUE, ops |-> ops]
    ELSE LET y == k \div o.cols
             x == k % o.cols
         IN  IF ~Addressable(g, [x |-> x, y |-> y]) THEN [ok |-> FALSE, ops |-> ops]
             ELSE drawCells(o, g, cssSize, k + 1, ops \o cellRects(o, g, cssSize, x, y))

\* draw(), lines 196-232: the canvas after the pass, and whether it ended.
draw(o, g, rect, attached) ==
    LET cssSize == measureSquare(o, rect, attached)
        dpr == Max(1, rect.dpr2 \div 2)
        pass == drawCells(o, g, cssSize, 0, << Rect(0, 0, cssSize, cssSize, o.bgColor) >>)
    IN  [ok |-> pass.ok,
         canvas |-> [width |-> cssSize * dpr, height |-> cssSize * dpr,
                     scale |-> dpr, ops |-> pass.ops]]

\* JSON.parse(JSON.stringify(grid)), line 273: a new array of new arrays of
\* new cells, each with the properties JSON writes.
jsonCopy(g) ==
    [y \in DOMAIN g |-> [x \in DOMAIN g[y] |->
        [visited |-> g[y][x].visited,
         walls |-> [top |-> g[y][x].walls.top, right |-> g[y][x].walls.right,
                    bottom |-> g[y][x].walls.bottom, left |-> g[y][x].walls.left]]]]

\* ------------------------------------------------------------------ state
VARIABLES
    cm,      \* the activation of carveMaze: its arguments, locals and position
    first,   \* the arguments and the result of the first call that ended
    again,   \* carveMaze was called again after a call that ended
    opts,    \* the configuration object (line 77)
    objs,    \* the heap of entry and exit objects
    grid,    \* the address of the grid the widget holds (line 179)
    grids,   \* the heap of grids
    snap,    \* the object getState() returned, while its caller uses it
    dom,     \* ro observes, draw listens to window resize, wrap is attached
    rect,    \* the container's rectangle and the device pixel ratio
    canvas,  \* the canvas as the last drawing pass left it
    outcome  \* the last step: the operation, and how it ended

carveVars == <<cm, first, again>>
widgetVars == <<opts, objs, grid, grids, snap, dom, rect, canvas, outcome>>
vars == <<carveVars, widgetVars>>

\* entry and exit are first read at line 159; the model draws them there.
Unread == "unread" :> TRUE
NoCall == "nocall" :> TRUE

enterKeepingStateLeak(cols, rows, seed) ==
    [pc |-> "loop", cols |-> cols, rows |-> rows, seed |-> seed,
     entry |-> Unread, exit |-> Unread,
     grid |-> enterCarve(cols, rows, seed).grid,
     stack |-> enterCarve(cols, rows, seed).stack,
     state |-> IF first = NoCall THEN ToUint32(seed) ELSE cm.state]
\* carveMaze is entered: lines 118-122.
enter(cols, rows, seed) ==
    [pc |-> "loop", cols |-> cols, rows |-> rows, seed |-> seed,
     entry |-> Unread, exit |-> Unread,
     grid |-> enterCarve(cols, rows, seed).grid,
     stack |-> enterCarve(cols, rows, seed).stack,
     state |-> enterCarve(cols, rows, seed).state]

Locals == [grid |-> cm.grid, stack |-> cm.stack, state |-> cm.state]
Top == cm.stack[Len(cm.stack)]
Unv == neighborsUnvisited(cm.grid, cm.cols, cm.rows, Top.x, Top.y)
Iterate ==
    LET L == loopBody(Locals, cm.cols, cm.rows)
    IN  cm' = [cm EXCEPT !.grid = L.grid, !.stack = L.stack, !.state = L.state]

\* An iteration that finds an unvisited neighbour (lines 147-152).
Push ==
    /\ cm.pc = "loop" /\ cm.stack # << >> /\ Len(Unv) > 0
    /\ Iterate
    /\ UNCHANGED <<first, again, widgetVars>>

\* An iteration that backtracks (line 154).
Pop ==
    /\ cm.pc = "loop" /\ cm.stack # << >> /\ Len(Unv) = 0
    /\ Iterate
    /\ UNCHANGED <<first, again, widgetVars>>

\* The loop has ended: lines 158-175, with entry and exit drawn from P.
OpenEntryExit(P) ==
    /\ cm.pc = "loop" /\ cm.stack = << >>
    /\ \E entry \in P, exit \in P :
         LET r == openings(cm.grid, cm.cols, cm.rows, entry, exit)
             done == [cm EXCEPT !.pc = IF r.ok THEN "returned" ELSE "thrown",
                                !.entry = entry, !.exit = exit, !.grid = r.grid]
         IN  /\ cm' = done
             /\ first' = IF first = NoCall
                         THEN [cols |-> cm.cols, rows |-> cm.rows, seed |-> cm.seed,
                               entry |-> entry, exit |-> exit,
                               pc |-> done.pc, grid |-> done.grid]
                         ELSE first
    /\ UNCHANGED <<again, widgetVars>>

\* carveMaze is called again, after the previous call ended.
Call ==
    /\ cm.pc \in {"returned", "thrown"}
    /\ \E cols \in 1..MaxCols, rows \in 1..MaxRows, seed \in Seeds :
         cm' = enter(cols, rows, seed)
    /\ again' = TRUE
    /\ UNCHANGED <<first, widgetVars>>

\* The widget's state while only carveMaze is looked at.
GridIds == 1..2
NoSnap == "nosnap" :> TRUE
NoCanvas == [width |-> 0, height |-> 0, scale |-> 1, ops |-> << >>]
NoWidget ==
    /\ opts = defaults
    /\ objs = defaultObjs
    /\ grid = 1
    /\ grids = [i \in GridIds |-> NoGrid]
    /\ snap = NoSnap
    /\ dom = [observing |-> FALSE, listening |-> FALSE, attached |-> FALSE]
    /\ rect = [w2 |-> 0, h2 |-> 0, dpr2 |-> 2]
    /\ canvas = NoCanvas
    /\ outcome = [op |-> "none", result |-> "no draw"]

InitCarve ==
    /\ first = NoCall
    /\ again = FALSE
    /\ \E cols \in 1..MaxCols, rows \in 1..MaxRows, seed \in Seeds :
         cm = enter(cols, rows, seed)
    /\ NoWidget

\* One call of carveMaze, every argument.
NextCarve == Push \/ Pop \/ OpenEntryExit(PointInputs)
SpecCarve == InitCarve /\ [][NextCarve]_vars

\* One call of carveMaze that runs on: the loop of lines 144-156 is
\* sequential code, and takes its next iteration as long as there is one.
NextLoop == Push \/ Pop \/ OpenEntryExit(RepeatPoints)
SpecLoop == InitCarve /\ [][NextLoop]_vars /\ WF_vars(Push \/ Pop)

\* Seeds at the ends of the generator's range: the first value drawn from
\* 653637408 is the largest there is, (2^32 - 1) / 2^32, the first drawn
\* from 634785765 is 0; and the largest and a most negative 32-bit seed.
GenSeeds == Seeds \cup {653637408, 634785765, 2147483647, -2147483647}
InitGen ==
    /\ first = NoCall
    /\ again = FALSE
    /\ \E cols \in 1..MaxCols, rows \in 1..MaxRows, seed \in GenSeeds :
         cm = enter(cols, rows, seed)
    /\ NoWidget
\* One call of carveMaze, for the seeds that try the generator.
SpecGen == InitGen /\ [][NextLoop]_vars

\* Calls of carveMaze one after the other.
NextRepeat == Push \/ Pop \/ OpenEntryExit(RepeatPoints) \/ Call
SpecRepeat == InitCarve /\ [][NextRepeat]_vars

\* ------------------------------------------------------------- the widget
Idle == [enter(1, 1, 0) EXCEPT !.pc = "idle"]
NoCarving == cm = Idle /\ first = NoCall /\ again = FALSE

Held == grids[grid]
Did(op, result) == [op |-> op, result |-> result]
DrawResult(d) == IF d.ok THEN "drawn" ELSE "draw threw"

\* createMazeWidget(mount, options), lines 62-240. When carveMaze throws at
\* line 179, createMazeWidget throws and there is no widget.
Init ==
    /\ NoCarving
    /\ \E options \in CreateInputs, r \in Rects :
         LET a == assign(defaults, defaultObjs, options)
             c == carveFor(a.opts, a.objs)
             d == draw(a.opts, c.grid, r, TRUE)
         IN  /\ c.ok
             /\ opts = a.opts
             /\ objs = a.objs
             /\ grid = 1
             /\ grids = [i \in GridIds |-> IF i = 1 THEN c.grid ELSE NoGrid]
             /\ rect = r
             /\ canvas = d.canvas
             /\ outcome = Did("create", DrawResult(d))
    /\ snap = NoSnap
    /\ dom = [observing |-> TRUE, listening |-> TRUE, attached |-> TRUE]

\* The caller is done with the snapshot it held, if any, before it calls
\* regenerate, setOptions or getState.
Unheld == snap = NoSnap

regenerateKeepingGrid(o, h, gs, g, partial, r, attached) ==
    LET a == assign(o, h, partial)
        d == draw(a.opts, gs[g], r, attached)
    IN  [opts |-> a.opts, objs |-> a.objs, grids |-> gs,
         drew |-> TRUE, canvas |-> d.canvas, result |-> DrawResult(d)]
regenerateDroppingGrid(o, h, gs, g, partial, r, attached) ==
    LET a == assign(o, h, partial)
        c == carveFor(a.opts, a.objs)
        d == draw(a.opts, c.grid, r, attached)
    IN  IF c.ok
        THEN [opts |-> a.opts, objs |-> a.objs,
              grids |-> [gs EXCEPT ![g] = c.grid],
              drew |-> TRUE, canvas |-> d.canvas, result |-> DrawResult(d)]
        ELSE [opts |-> a.opts, objs |-> a.objs,
              grids |-> [gs EXCEPT ![g] = NoGrid],
              drew |-> FALSE, canvas |-> NoCanvas, result |-> "carve threw"]
\* regenerate(newOptions), lines 243-253: when carveMaze throws, opts is
\* assigned to and nothing else is done.
regenerate(o, h, gs, g, partial, r, attached) ==
    LET a == assign(o, h, partial)
        c == carveFor(a.opts, a.objs)
        d == draw(a.opts, c.grid, r, attached)
    IN  IF c.ok
        THEN [opts |-> a.opts, objs |-> a.objs,
              grids |-> [gs EXCEPT ![g] = c.grid],
              drew |-> TRUE, canvas |-> d.canvas, result |-> DrawResult(d)]
        ELSE [opts |-> a.opts, objs |-> a.objs, grids |-> gs,
              drew |-> FALSE, canvas |-> NoCanvas, result |-> "carve threw"]

Regenerate ==
    /\ Unheld
    /\ \E partial \in OptionInputs :
         LET n == regenerate(opts, objs, grids, grid, partial, rect, dom.attached)
         IN  /\ opts' = n.opts
             /\ objs' = n.objs
             /\ grids' = n.grids
             /\ canvas' = IF n.drew THEN n.canvas ELSE canvas
             /\ outcome' = Did("regenerate", n.result)
    /\ UNCHANGED <<carveVars, grid, snap, dom, rect>>

\* redraw(), lines 255-257.
Redraw ==
    /\ LET d == draw(opts, Held, rect, dom.attached)
       IN  canvas' = d.canvas /\ outcome' = Did("redraw", DrawResult(d))
    /\ UNCHANGED <<carveVars, opts, objs, grid, grids, snap, dom, rect>>

setOptionsRecarving(o, h, gs, g, partial, r, attached) ==
    regenerate(o, h, gs, g, partial, r, attached)
\* setOptions(partial), lines 259-262.
setOptions(o, h, gs, g, partial, r, attached) ==
    LET a == assign(o, h, partial)
        d == draw(a.opts, gs[g], r, attached)
    IN  [opts |-> a.opts, objs |-> a.objs, grids |-> gs,
         drew |-> TRUE, canvas |-> d.canvas, result |-> DrawResult(d)]

SetOptions ==
    /\ Unheld
    /\ \E partial \in OptionInputs :
         LET n == setOptions(opts, objs, grids, grid, partial, rect, dom.attached)
         IN  /\ opts' = n.opts
             /\ objs' = n.objs
             /\ grids' = n.grids
             /\ canvas' = IF n.drew THEN n.canvas ELSE canvas
             /\ outcome' = Did("setOptions", n.result)
    /\ UNCHANGED <<carveVars, grid, snap, dom, rect>>

destroyToggling(d) ==
    [observing |-> ~d.observing, listening |-> ~d.listening, attached |-> ~d.attached]
\* destroy(), lines 264-268: ro.disconnect(), removeEventListener and
\* wrap.remove() leave an observer that observes nothing, a listener that is
\* not registered and a wrapper without a parent as they are.
destroy(d) == [observing |-> FALSE, listening |-> FALSE, attached |-> FALSE]

\* The result tells the call that released the subscription from a later one.
Destroy ==
    /\ dom' = destroy(dom)
    /\ outcome' = Did("destroy", IF dom.observing THEN "released" ELSE "no release")
    /\ UNCHANGED <<carveVars, opts, objs, grid, grids, snap, rect, canvas>>

\* The resize observer's callback, line 235: the container has the size r.
ResizeObserved ==
    /\ dom.observing
    /\ \E r \in Rects :
         LET d == draw(opts, Held, r, dom.attached)
         IN  /\ rect' = r
             /\ canvas' = d.canvas
             /\ outcome' = Did("observer", DrawResult(d))
    /\ UNCHANGED <<carveVars, opts, objs, grid, grids, snap, dom>>

\* The window's resize event, line 237.
WindowResized ==
    /\ dom.listening
    /\ \E r \in Rects :
         LET d == draw(opts, Held, r, dom.attached)
         IN  /\ rect' = r
             /\ canvas' = d.canvas
             /\ outcome' = Did("resize", DrawResult(d))
    /\ UNCHANGED <<carveVars, opts, objs, grid, grids, snap, dom>>

getStateSharingGrid(o, gs, g) == [snap |-> [options |-> o, grid |-> g], grids |-> gs]
\* getState(), lines 270-277: options is a new object with the properties
\* of opts (entry and exit are the same two references), grid a new copy.
getState(o, gs, g) ==
    LET id == CHOOSE i \in GridIds : i # g
    IN  [snap |-> [options |-> [k \in DOMAIN o |-> o[k]], grid |-> id],
         grids |-> [gs EXCEPT ![id] = jsonCopy(gs[g])]]

GetState ==
    /\ Unheld
    /\ snap' = getState(opts, grids, grid).snap
    /\ grids' = getState(opts, grids, grid).grids
    /\ outcome' = Did("getState", "no draw")
    /\ UNCHANGED <<carveVars, opts, objs, grid, dom, rect, canvas>>

\* What the caller writes into the snapshot it holds.
\* snapshot.options.cols = v
MutateOption ==
    /\ snap # NoSnap
    /\ \E v \in WidgetSides : snap' = [snap EXCEPT !.options.cols = v]
    /\ snap' # snap
    /\ outcome' = Did("mutate", "no draw")
    /\ UNCHANGED <<carveVars, opts, objs, grid, grids, dom, rect, canvas>>

\* snapshot.options.entry.y = 1
MutatePoint ==
    /\ snap # NoSnap
    /\ snap.options.entry # 0
    /\ objs' = [objs EXCEPT ![snap.options.entry] = ("y" :> 1) @@ @]
    /\ objs' # objs
    /\ outcome' = Did("mutate", "no draw")
    /\ UNCHANGED <<carveVars, opts, grid, grids, snap, dom, rect, canvas>>

\* snapshot.grid[0][0].walls.left = !snapshot.grid[0][0].walls.left
MutateGrid ==
    /\ snap # NoSnap
    /\ grids' = [grids EXCEPT ![snap.grid][0][0].walls.left = ~@]
    /\ outcome' = Did("mutate", "no draw")
    /\ UNCHANGED <<carveVars, opts, objs, grid, snap, dom, rect, canvas>>

\* The caller lets go of the snapshot: its options and its grid are garbage.
DropSnapshot ==
    /\ snap # NoSnap
    /\ snap' = NoSnap
    /\ grids' = [i \in GridIds |-> IF i = grid THEN grids[i] ELSE NoGrid]
    /\ outcome' = Did("drop", "no draw")
    /\ UNCHANGED <<carveVars, opts, objs, grid, dom, rect, canvas>>

Next ==
    \/ Regenerate
    \/ Redraw
    \/ SetOptions
    \/ Destroy
    \/ ResizeObserved
    \/ WindowResized
    \/ GetState
    \/ MutateOption
    \/ MutatePoint
    \/ MutateGrid
    \/ DropSnapshot
Spec == Init /\ [][Next]_vars

\* ------------------------------------------- carving, then the first drawing
\* The container's rectangle where the size of the canvas matters: 6 pixels
\* wide, so that cells of 1, 2 and 3 columns are a whole number of pixels.
FullRect == [w2 |-> 13, h2 |-> 9, dpr2 |-> 3]
\* The configuration of a widget created with the arguments of the call cm.
SizedOpts ==
    [defaults EXCEPT !.cols = cm.cols, !.rows = cm.rows, !.seed = cm.seed,
                     !.entry = IF cm.entry = NullObj THEN 0 ELSE 1,
                     !.exit = IF cm.exit = NullObj THEN 0 ELSE 2]
SizedObjs ==
    [i \in PointIds |->
        LET p == IF i = 1 THEN cm.entry ELSE cm.exit
        IN  IF p = NullObj THEN Free ELSE p]

\* The first rendering, line 240, of the grid carveMaze returned at line 179.
FirstDraw ==
    /\ cm.pc = "returned" /\ outcome.op = "none"
    /\ LET d == draw(SizedOpts, cm.grid, FullRect, TRUE)
       IN  /\ opts' = SizedOpts
           /\ objs' = SizedObjs
           /\ rect' = FullRect
           /\ canvas' = d.canvas
           /\ outcome' = Did("create", DrawResult(d))
    /\ UNCHANGED <<carveVars, grid, grids, snap, dom>>

\* Entries and exits on every side of a cell, inside the grid and on its edge.
RenderPoints ==
    {NullObj, Point(<<0>>, <<0>>, <<"bottom">>), Point(<<0>>, <<0>>, <<"right">>),
     Point(<<>>, <<>>, <<"left">>)}
\* carveMaze, then the first rendering of what it returned.
NextRender == Push \/ Pop \/ OpenEntryExit(RenderPoints) \/ FirstDraw
SpecRender == InitCarve /\ [][NextRender]_vars

\* ----------------------------------------------------------- the maze graph
CellsOf(g) == {<<x, y>> : x \in DOMAIN g[0], y \in DOMAIN g}
\* c and d are side by side or one above the other.
Adjacent(c, d) ==
    \/ c[2] = d[2] /\ (c[1] - d[1] = 1 \/ d[1] - c[1] = 1)
    \/ c[1] = d[1] /\ (c[2] - d[2] = 1 \/ d[2] - c[2] = 1)
\* The side of c that faces the adjacent cell d.
Facing(c, d) ==
    IF d[1] = c[1] + 1 THEN "right"
    ELSE IF d[1] = c[1] - 1 THEN "left"
    ELSE IF d[2] = c[2] + 1 THEN "bottom"
    ELSE "top"
WallOf(g, c, side) == g[c[2]][c[1]].walls[side]
\* The wall shared by adjacent cells c and d is cleared (on both cells).
Open(g, c, d) == ~WallOf(g, c, Facing(c, d)) /\ ~WallOf(g, d, Facing(d, c))
OpenAdjacencies(g) ==
    {e \in SUBSET CellsOf(g) :
        \E c \in e, d \in e : e = {c, d} /\ Adjacent(c, d) /\ Open(g, c, d)}

RECURSIVE ReachableFrom(_, _)
\* The cells reachable from the cells S through open walls.
ReachableFrom(g, S) ==
    LET T == S \cup {d \in CellsOf(g) : \E c \in S : Adjacent(c, d) /\ Open(g, c, d)}
    IN  IF T = S THEN S ELSE ReachableFrom(g, T)

RECURSIVE Pruned(_)
\* The edges E once every edge that ends in a vertex of degree 1 is removed,
\* again and again: what is left is empty exactly when E has no cycle.
Pruned(E) ==
    LET deg(c) == Cardinality({e \in E : c \in e})
        F == {e \in E : \A c \in e : deg(c) > 1}
    IN  IF F = E THEN E ELSE Pruned(F)

SpanningTree(g, cols, rows) ==
    /\ Cardinality(OpenAdjacencies(g)) = rows * cols - 1
    /\ ReachableFrom(g, {<<0, 0>>}) = CellsOf(g)
    /\ Pruned(OpenAdjacencies(g)) = {}

LoopEnded == cm.pc = "loop" /\ cm.stack = << >>

\* C1: when the carving loop has ended, before the entry and the exit are
\* carved, the open adjacencies of the grid form a spanning tree: there are
\* rows*cols - 1 of them, every cell is reachable from (0,0), and no cycle.
C1_SpanningTree ==
    LoopEnded => /\ DOMAIN cm.grid = 0..(cm.rows - 1)
                 /\ \A y \in DOMAIN cm.grid : DOMAIN cm.grid[y] = 0..(cm.cols - 1)
                 /\ SpanningTree(cm.grid, cm.cols, cm.rows)
\* The loop has ended on the largest grid, carved from seed 0.
C1_Witness == LoopEnded /\ cm.seed = 0 /\ cm.cols = MaxCols /\ cm.rows = MaxRows

\* The call that has just ended had the arguments of the first call.
SameArguments ==
    /\ first # NoCall
    /\ cm.pc \in {"returned", "thrown"}
    /\ cm.cols = first.cols /\ cm.rows = first.rows /\ cm.seed = first.seed
    /\ cm.entry = first.entry /\ cm.exit = first.exit

\* C2: carveMaze is deterministic. A call with the arguments of the first
\* call ends as the first call did, whatever calls were made in between:
\* it returns a grid with the same walls on every cell (or throws, if the
\* first call threw).
C2_Deterministic ==
    SameArguments =>
        /\ cm.pc = first.pc
        /\ DOMAIN cm.grid = DOMAIN first.grid
        /\ \A y \in DOMAIN cm.grid :
             /\ DOMAIN cm.grid[y] = DOMAIN first.grid[y]
             /\ \A x \in DOMAIN cm.grid[y] :
                  cm.grid[y][x].walls = first.grid[y][x].walls
\* A later call with the arguments of the first call has returned the
\* largest grid.
C2_Witness ==
    /\ again /\ SameArguments /\ cm.pc = "returned"
    /\ cm.cols = MaxCols /\ cm.rows = MaxRows

Ended == cm.pc \in {"returned", "thrown"}
\* Property k of the argument o, or d when o or the property is missing.
OrDefault(o, k, d) == IF o # NullObj /\ k \in DOMAIN o THEN o[k] ELSE d
ResolvedEntry ==
    [x |-> OrDefault(cm.entry, "x", 0),
     y |-> OrDefault(cm.entry, "y", 0),
     side |-> OrDefault(cm.entry, "side", "top")]
ResolvedExit ==
    [x |-> OrDefault(cm.exit, "x", cm.cols - 1),
     y |-> OrDefault(cm.exit, "y", cm.rows - 1),
     side |-> OrDefault(cm.exit, "side", "bottom")]
InBounds(p) == p.x \in 0..(cm.cols - 1) /\ p.y \in 0..(cm.rows - 1)

\* C3: when the entry and the exit, each field resolved to its default on
\* its own, are in bounds, carveMaze returns a grid, and in it the resolved
\* entry wall and the resolved exit wall are open.
C3_EntryExitOpen ==
    (Ended /\ InBounds(ResolvedEntry) /\ InBounds(ResolvedExit)) =>
        /\ cm.pc = "returned"
        /\ ~cm.grid[ResolvedEntry.y][ResolvedEntry.x].walls[ResolvedEntry.side]
        /\ ~cm.grid[ResolvedExit.y][ResolvedExit.x].walls[ResolvedExit.side]
\* A grid was returned for an exit with an explicit y (not the last row), a
\* defaulted x (not column 0) and a defaulted side.
C3_Witness ==
    /\ cm.pc = "returned"
    /\ cm.exit # NullObj /\ DOMAIN cm.exit = {"y"}
    /\ cm.exit.y < cm.rows - 1 /\ cm.cols > 1
    /\ cm.entry # NullObj /\ DOMAIN cm.entry = {"x", "side"}

\* The two copies of the wall between every two adjacent cells agree.
WallCopiesAgree(g) ==
    \A c \in CellsOf(g), d \in CellsOf(g) :
        Adjacent(c, d) => (WallOf(g, c, Facing(c, d)) = WallOf(g, d, Facing(d, c)))

\* C4: in every grid of a carving pass, after each iteration of the loop and
\* in the grid returned after the entry and the exit are carved, the two
\* copies of every shared wall have the same value.
C4_WallCopiesAgree == cm.pc \in {"loop", "returned"} => WallCopiesAgree(cm.grid)

\* ------------------------------------------------------ the widget's claims
\* The wall data of a grid.
Walls(g) == [y \in DOMAIN g |-> [x \in DOMAIN g[y] |-> g[y][x].walls]]
\* What carveMaze does with the widget's configuration as it is now.
Fresh == carveFor(opts, objs)
\* The grid the widget holds is not the one its configuration carves.
Stale == ~Fresh.ok \/ Walls(Fresh.grid) # Walls(Held)

C6_SetOptionsSeedRegenerates ==
    [][(/\ outcome'.op = "setOptions"
        /\ opts'.seed # opts.seed
        /\ \A k \in DOMAIN opts \ {"seed"} : opts'[k] = opts[k]
        /\ objs' = objs
        /\ carveFor(opts', objs').ok)
       => Walls(Held') = Walls(carveFor(opts', objs').grid)]_vars

\* opts2 and h2 are opts and h with the properties of partial assigned.
Merged(o, h, partial, o2, h2) ==
    /\ DOMAIN o2 = DOMAIN o
    /\ \A k \in DOMAIN o \ {"entry", "exit"} :
         o2[k] = IF Has(partial, k) THEN partial[k] ELSE o[k]
    /\ \A k \in {"entry", "exit"} :
         Deref(h2, o2[k]) = IF Has(partial, k) THEN partial[k] ELSE Deref(h, o[k])

\* C7: regenerate(partial) merges partial into the configuration; when it
\* succeeds, the held grid is the grid carveMaze returns for the merged
\* configuration, it has merged rows by merged cols cells, an exit
\* coordinate that is null is the last column or row of the merged
\* configuration, and the grid is drawn.
C7_RegenerateCarves ==
    [][outcome'.op = "regenerate" =>
         /\ \E partial \in OptionInputs : Merged(opts, objs, partial, opts', objs')
         /\ outcome'.result # "carve threw" =>
              LET ex == Deref(objs', opts'.exit)
                  ey == IF Has(ex, "y") THEN ex.y ELSE opts'.rows - 1
                  ex0 == IF Has(ex, "x") THEN ex.x ELSE opts'.cols - 1
              IN  /\ Held' = carveMaze(opts'.cols, opts'.rows, opts'.seed,
                                       Deref(objs', opts'.entry), ex).grid
                  /\ DOMAIN Held' = 0..(opts'.rows - 1)
                  /\ \A y \in DOMAIN Held' : DOMAIN Held'[y] = 0..(opts'.cols - 1)
                  /\ ~Held'[ey][ex0].walls.bottom
                  /\ outcome'.result = "drawn"]_vars
\* regenerate has carved the largest grid from seed 0, with the exit left to
\* its default: the bottom wall of the last cell is open.
C7_Witness ==
    /\ outcome.op = "regenerate" /\ outcome.result = "drawn"
    /\ opts.cols = MaxSide /\ opts.rows = MaxSide /\ opts.seed = 0
    /\ ~Has(Deref(objs, opts.exit), "x")
    /\ ~Held[MaxSide - 1][MaxSide - 1].walls.bottom

\* C8: a mutation of the object getState() returned (of its options or of a
\* cell of its grid) leaves what a redraw does as it was: for every size of
\* the container the drawing pass issues the same fill operations.
C8_SnapshotIsolatedForDrawing ==
    [][outcome'.op = "mutate" =>
         \A r \in Rects :
            draw(opts', Held', r, dom'.attached) = draw(opts, Held, r, dom.attached)]_vars
\* The caller has changed options.cols and a wall of the grid in the
\* snapshot it holds.
C8_Witness ==
    /\ outcome.op = "mutate"
    /\ snap # NoSnap
    /\ snap.options.cols # opts.cols
    /\ Walls(grids[snap.grid]) # Walls(Held)

\* C9: the configuration and the entry and exit points getState() returns
\* are copies: no mutation of the snapshot changes what carveMaze is handed
\* by a later regenerate(), so that regenerate() carves the same grid.
C9_SnapshotNotAliased ==
    [][outcome'.op = "mutate" => carveFor(opts', objs') = carveFor(opts, objs)]_vars

Destroyed == ~dom.observing /\ ~dom.listening /\ ~dom.attached

\* C10: after destroy() no drawing pass is executed, whatever follows: a
\* notification of the resize observer, a window resize event, or a call of
\* redraw, setOptions or regenerate.
C10_NoDrawAfterDestroy ==
    Destroyed => outcome.result \notin {"drawn", "draw threw"}

VisitedCells(g) == {c \in CellsOf(g) : g[c[2]][c[1]].visited}
StackCell(st, i) == <<st[i].x, st[i].y>>
InLoop == cm.pc = "loop"

\* C12: the carving loop terminates: the stack becomes empty, and then every
\* cell of the rows by cols grid is visited. An iteration either pushes one
\* cell that was not visited and marks it (and no other cell) visited, or
\* pops the top of the stack and marks nothing: so every cell is marked and
\* pushed exactly once, and popped exactly once.
C12_LoopTerminates ==
    /\ <>LoopEnded
    /\ [](LoopEnded => VisitedCells(cm.grid) =
                          (0..(cm.cols - 1)) \X (0..(cm.rows - 1)))
    /\ [][(InLoop /\ cm'.pc = "loop") =>
            LET n == Len(cm.stack)
            IN  \/ /\ Len(cm'.stack) = n + 1
                   /\ SubSeq(cm'.stack, 1, n) = cm.stack
                   /\ StackCell(cm'.stack, n + 1) \notin VisitedCells(cm.grid)
                   /\ VisitedCells(cm'.grid) =
                         VisitedCells(cm.grid) \cup {StackCell(cm'.stack, n + 1)}
                \/ /\ cm'.stack = SubSeq(cm.stack, 1, n - 1)
                   /\ VisitedCells(cm'.grid) = VisitedCells(cm.grid)]_vars
\* The loop has ended on the largest grid, carved from a negative seed.
C12_Witness ==
    /\ LoopEnded /\ cm.seed = -1 /\ cm.cols = MaxCols /\ cm.rows = MaxRows
    /\ Cardinality(VisitedCells(cm.grid)) = MaxCols * MaxRows

\* The entry and the exit of the configuration o, each field resolved to its
\* default, are cells of an o.rows by o.cols grid.
ConfigInBounds(o, h) ==
    LET en == Deref(h, o.entry)
        ex == Deref(h, o.exit)
    IN  /\ OrDefault(en, "x", 0) \in 0..(o.cols - 1)
        /\ OrDefault(en, "y", 0) \in 0..(o.rows - 1)
        /\ OrDefault(ex, "x", o.cols - 1) \in 0..(o.cols - 1)
        /\ OrDefault(ex, "y", o.rows - 1) \in 0..(o.rows - 1)

\* C13: when the resolved entry or exit is outside the grid, carveMaze throws
\* and returns no grid. Nothing catches it: a widget that was created has
\* its entry and exit inside its grid, and a regenerate whose merged
\* configuration has one of them outside ends with the throw, after opts is
\* assigned and before anything is drawn, the grid held before still held.
\* A regenerate with both inside does not throw.
C13_OutOfRangeThrows ==
    /\ [](outcome.op = "create" => ConfigInBounds(opts, objs))
    /\ [][outcome'.op = "regenerate" =>
            IF ConfigInBounds(opts', objs')
            THEN outcome'.result = "drawn"
            ELSE /\ carveFor(opts', objs') = [ok |-> FALSE, grid |-> NoGrid]
                 /\ outcome'.result = "carve threw"
                 /\ grid' = grid /\ grids' = grids
                 /\ canvas' = canvas]_vars
\* A regenerate has thrown for an exit beyond the last column, the entry
\* being inside the grid.
C13_Witness ==
    /\ outcome = Did("regenerate", "carve threw")
    /\ OrDefault(Deref(objs, opts.entry), "y", 0) < opts.rows
    /\ OrDefault(Deref(objs, opts.exit), "x", opts.cols - 1) >= opts.cols

\* ------------------------------------------------- claims about drawing
\* The grid g has o.rows rows of o.cols cells.
Fits(o, g) ==
    /\ DOMAIN g = 0..(o.rows - 1)
    /\ \A y \in DOMAIN g : DOMAIN g[y] = 0..(o.cols - 1)
\* The last step ran a drawing pass.
Drew == outcome.result \in {"drawn", "draw threw"}

\* C14: a drawing pass that measures the size 0, on a held grid that has the
\* rows and columns of the configuration, ends without a failure, and every
\* rectangle it fills (the background and each wall) has zero area.
C14_ZeroSizePass ==
    (Drew /\ canvas.width = 0 /\ Fits(opts, Held)) =>
        /\ outcome.result = "drawn"
        /\ canvas.height = 0
        /\ \A i \in 1..Len(canvas.ops) : canvas.ops[i].w * canvas.ops[i].h = 0
\* redraw() has drawn walls on the canvas of a container that is in the
\* document and has no width.
C14_Witness ==
    /\ outcome = Did("redraw", "drawn")
    /\ dom.attached /\ rect.w2 = 0
    /\ canvas.width = 0 /\ Len(canvas.ops) > 1
    /\ Fits(opts, Held)

\* The rectangles line 224-229 fill for a wall of the cell (x, y), for the
\* configuration o on a surface of size cssSize.
PassRect(o, cssSize, x, y, side) ==
    LET cs == CeilDiv(cssSize, o.cols)
        t == Max(1, CeilDiv(cssSize * o.lineWidthRatio[1],
                            o.cols * o.lineWidthRatio[2]))
        px == (x * cssSize) \div o.cols
        py == (y * cssSize) \div o.cols
    IN  CASE side = "top" -> Rect(px, py, cs, t, o.wallColor)
          [] side = "left" -> Rect(px, py, t, cs, o.wallColor)
          [] side = "right" -> Rect(px + cs - t, py, t, cs, o.wallColor)
          [] side = "bottom" -> Rect(px, py + cs - t, cs, t, o.wallColor)
\* How often the pass that left the canvas filled the rectangle r.
Times(r) == Cardinality({i \in 1..Len(canvas.ops) : canvas.ops[i] = r})
Rendered == cm.pc = "returned" /\ outcome.op = "create"

\* C15: the first rendering of a grid carveMaze returned draws every wall
\* once. A wall between two cells (drawn as the top or the left of the lower
\* or the right one) is filled once when neither cell has it cleared, and
\* not at all when it was opened, by the loop or as the entry or the exit;
\* a wall on the edge of the grid is filled once when it is present and not
\* at all when it is open.
C15_EveryWallOnce ==
    Rendered =>
        LET g == cm.grid
            size == canvas.width \div canvas.scale
            wall(x, y, side) == g[y][x].walls[side]
        IN  \A x \in 0..(cm.cols - 1), y \in 0..(cm.rows - 1) :
              /\ Times(PassRect(opts, size, x, y, "top")) =
                   IF y = 0 THEN (IF wall(x, y, "top") THEN 1 ELSE 0)
                   ELSE IF wall(x, y, "top") /\ wall(x, y - 1, "bottom") THEN 1 ELSE 0
              /\ Times(PassRect(opts, size, x, y, "left")) =
                   IF x = 0 THEN (IF wall(x, y, "left") THEN 1 ELSE 0)
                   ELSE IF wall(x, y, "left") /\ wall(x - 1, y, "right") THEN 1 ELSE 0
              /\ x = cm.cols - 1 =>
                   Times(PassRect(opts, size, x, y, "right")) =
                     IF wall(x, y, "right") THEN 1 ELSE 0
              /\ y = cm.rows - 1 =>
                   Times(PassRect(opts, size, x, y, "bottom")) =
                     IF wall(x, y, "bottom") THEN 1 ELSE 0

\* --------------------------------------------- claims about the generator
\* Arithmetic modulo 2^32 on pairs of 16-bit halves, bit by bit.
Add32(a, b) ==
    LET lo == a[2] + b[2]
    IN  <<(a[1] + b[1] + (lo \div W16)) % W16, lo % W16>>
RECURSIVE Times32(_, _)
Times32(a, m) ==
    IF m = 0 THEN <<0, 0>>
    ELSE Add32(IF m % 2 = 1 THEN a ELSE <<0, 0>>, Times32(Add32(a, a), m \div 2))
\* (s * 1664525 + 1013904223) mod 2^32
LcgRef(s) == Add32(Times32(s, LcgMul), <<LcgInc \div W16, LcgInc % W16>>)
\* The number of k in 1..n with k <= (s / 2^32) * n, that is floor(s/2^32 * n).
IndexRef(s, n) ==
    Cardinality({k \in 1..n : k * W16 <= s[1] * n + ((s[2] * n) \div W16)})
Halves == 0..(W16 - 1)
Pushed == InLoop /\ cm'.pc = "loop" /\ Len(cm'.stack) = Len(cm.stack) + 1
Popped == InLoop /\ cm'.pc = "loop" /\ Len(cm'.stack) = Len(cm.stack) - 1

\* C16: the generator starts from the seed truncated to 32 bits, its state
\* stays in [0, 2^32), and each value drawn replaces the state by
\* (state * 1664525 + 1013904223) mod 2^32 (an iteration that pops draws
\* nothing). The value drawn is below 1: the index floor(next() * count) is
\* in 0..count-1, and the cell pushed is the unvisited neighbour at that
\* index.
C16_GeneratorExact ==
    /\ cm.state[2] = cm.seed % W16
    /\ cm.state[1] = ((cm.seed - cm.state[2]) \div W16) % W16
    /\ [](cm.state[1] \in Halves /\ cm.state[2] \in Halves)
    /\ [][Pushed =>
            LET k == IndexRef(cm'.state, Len(Unv))
            IN  /\ cm'.state = LcgRef(cm.state)
                /\ Len(Unv) \in 1..4
                /\ k \in 0..(Len(Unv) - 1)
                /\ StackCell(cm'.stack, Len(cm'.stack)) = <<Unv[k + 1].nx, Unv[k + 1].ny>>
                /\ ~cm.grid[Unv[k + 1].ny][Unv[k + 1].nx].visited]_vars
    /\ [][Popped => cm'.state = cm.state]_vars
\* The largest value there is was drawn to choose between two neighbours,
\* and the second one was pushed.
C16_Witness ==
    /\ cm.pc = "loop" /\ cm.state = <<W16 - 1, W16 - 1>>
    /\ cm.cols = MaxCols /\ cm.rows = MaxRows
    /\ cm.stack = << [x |-> 0, y |-> 0], [x |-> 0, y |-> 1] >>

\* C17: in every state of the widget the held grid has opts.rows rows of
\* opts.cols cells, and no drawing pass ends in an indexing failure.
C17_GridFitsConfiguration == Fits(opts, Held) /\ outcome.result # "draw threw"

\* The cell next to c on the given side (a cell of the grid or not).
Toward(c, side) ==
    CASE side = "top" -> <<c[1], c[2] - 1>>
      [] side = "bottom" -> <<c[1], c[2] + 1>>
      [] side = "left" -> <<c[1] - 1, c[2]>>
      [] side = "right" -> <<c[1] + 1, c[2]>>

\* C18: after every iteration of the carving loop (and before the first),
\* the stack holds pairwise distinct visited cells, the first of them (0,0);
\* each two consecutive cells of the stack are adjacent and the wall they
\* share is open; a wall is cleared only on a visited cell, towards a
\* visited cell of the grid; the open adjacencies are one fewer than the
\* visited cells; and an iteration clears no visited flag.
C18_LoopInvariant ==
    /\ [](InLoop =>
            LET n == Len(cm.stack)
                g == cm.grid
                V == VisitedCells(cm.grid)
            IN  /\ \A i \in 1..n : StackCell(cm.stack, i) \in V
                /\ \A i \in 1..n, j \in 1..n :
                      i # j => StackCell(cm.stack, i) # StackCell(cm.stack, j)
                /\ n > 0 => StackCell(cm.stack, 1) = <<0, 0>>
                /\ \A i \in 1..(n - 1) :
                      /\ Adjacent(StackCell(cm.stack, i), StackCell(cm.stack, i + 1))
                      /\ Open(g, StackCell(cm.stack, i), StackCell(cm.stack, i + 1))
                /\ \A c \in CellsOf(g), side \in Sides :
                      ~WallOf(g, c, side) => (c \in V /\ Toward(c, side) \in V)
                /\ Cardinality(OpenAdjacencies(g)) = Cardinality(V) - 1)
    /\ [][(InLoop /\ cm'.pc = "loop") =>
            VisitedCells(cm.grid) \subseteq VisitedCells(cm'.grid)]_vars
\* The stack is a path of four cells on the largest grid, and a cell off the
\* stack is visited: the loop has pushed and popped.
C18_Witness ==
    /\ InLoop /\ Len(cm.stack) = 4
    /\ cm.cols = MaxCols /\ cm.rows = MaxRows
    /\ Cardinality(VisitedCells(cm.grid)) > 4

\* The walls on the edge of the grid g that are cleared, as <<cell, side>>.
BoundaryOpenings(g) ==
    {w \in CellsOf(g) \X Sides :
        Toward(w[1], w[2]) \notin CellsOf(g) /\ ~WallOf(g, w[1], w[2])}
Names(p) == << <<p.x, p.y>>, p.side >>

\* C19: the carving loop clears no wall on the edge of the grid, and in the
\* grid carveMaze returns the only cleared walls on the edge are the wall
\* the resolved entry names and the wall the resolved exit names: at most
\* two openings.
C19_BoundaryKept ==
    /\ InLoop => BoundaryOpenings(cm.grid) = {}
    /\ cm.pc = "returned" =>
         /\ BoundaryOpenings(cm.grid) \subseteq {Names(ResolvedEntry), Names(ResolvedExit)}
         /\ Cardinality(BoundaryOpenings(cm.grid)) <= 2
\* A grid was returned with two openings on its edge, the entry on the left
\* of a cell below the first row.
C19_Witness ==
    /\ cm.pc = "returned"
    /\ Cardinality(BoundaryOpenings(cm.grid)) = 2
    /\ ResolvedEntry.side = "left" /\ ResolvedEntry.y > 0

\* C20: a drawing pass on a surface of size 1 or more, of a grid that has
\* the rows and columns of the configuration, fills rectangles inside the
\* square from (0, 0) to (size, size) only, and the right wall of a cell of
\* the last column ends at x = size.
C20_RectanglesInside ==
    LET size == canvas.width \div canvas.scale
    IN  (outcome.result = "drawn" /\ size >= 1 /\ Fits(opts, cm.grid)) =>
          /\ \A i \in 1..Len(canvas.ops) :
               LET r == canvas.ops[i]
               IN  /\ r.x >= 0 /\ r.y >= 0
                   /\ r.x + r.w <= size
                   /\ r.y + r.h <= size
          /\ \A y \in 0..(opts.rows - 1) :
               LET r == PassRect(opts, size, opts.cols - 1, y, "right")
               IN  r.x + r.w = size

====
